---- MODULE Spec2Model ----
(***************************************************************************)
(* The TCP session registry of Src/Modules/tcp.c: the singly linked list   *)
(* ztcp_head/ztcp_tail of struct tcp_session records, the registry         *)
(* functions zts_alloc, zts_delete, zts_byfd, tcp_cleanup, the connection  *)
(* operations tcp_socket, tcp_close, tcp_connect and the builtin bin_ztcp. *)
(*                                                                         *)
(* Memory is modelled explicitly: every record has an address and the heap *)
(* remembers which addresses are allocated.  The bytes of a freed record   *)
(* are indeterminate (the model holds ZeroRec there); a read of them is    *)
(* undefined behaviour, whose outcomes are listed where the code does it.  *)
(* The operating system is the set of open descriptors.  log, last, held,  *)
(* born and closed record history for the properties; no operation reads   *)
(* them.                                                                   *)
(***************************************************************************)
EXTENDS Integers, Sequences, FiniteSets, TLC

NRec == 3        \* addresses the allocator can hand out
NFd == 2         \* descriptors the process may have open at once
MaxAddrs == 2    \* candidate addresses a resolved host carries
MaxIntr == 1     \* interrupted connect() calls on one candidate
MaxAllocs == 3   \* records zcalloc hands out before memory is exhausted

NULL == 0
NOFD == -1
ZTCP_ZFTP == 1

Addr == 1..NRec
FD == 3..(NFd + 2)
Flags == {0, ZTCP_ZFTP}
\* atoi(args[0]) of `ztcp -c <fd>`
TargetFds == FD \cup {NOFD}

\* how a connect() call that is not retried ends
ConnectResults == {"ok", "fail", "sig"}

\* setsockopt(sess->fd, ..., SO_OOBINLINE, ...) is compiled in wherever
\* <sys/socket.h> defines SO_OOBINLINE
HAVE_SO_OOBINLINE == TRUE

VARIABLES
    mem,        \* mem[a]: the bytes at address a, as a struct tcp_session
    heap,       \* heap[a]: "unused", "live" (allocated) or "freed"
    ztcp_head,  \* Tcp_session ztcp_head
    ztcp_tail,  \* Tcp_session ztcp_tail
    osfd,       \* the descriptors the OS has open for the process
    nalloc,     \* the records zcalloc has handed out so far
    fault,      \* "none", or how the process ended ("segv", "hang", "uaf")
    log,        \* what the current (or last) operation did, in order
    held,       \* sessions handed to callers and not yet deleted
    born,       \* born[a]: which allocation made the record at a (0: none)
    closed,     \* the allocated records tcp_close has called close() for
    pc,         \* position inside tcp_cleanup, "idle" outside it
    c_sess,     \* tcp_cleanup's local sess
    c_prev,     \* tcp_cleanup's local prev
    c_link,     \* the value prev->next had when *prev was freed
    last        \* the current (or last) operation, its arguments and result

vars == <<mem, heap, ztcp_head, ztcp_tail, osfd, nalloc, fault, log, held,
          born, closed, pc, c_sess, c_prev, c_link, last>>

ZeroRec == [fd |-> 0, next |-> NULL, flags |-> 0, peer |-> 0]

\* The program's state as one value, threaded through the functions below.
World == [mem |-> mem, heap |-> heap, head |-> ztcp_head, tail |-> ztcp_tail,
          osfd |-> osfd, nalloc |-> nalloc, fault |-> fault, log |-> <<>>]

Range(q) == {q[i] : i \in 1..Len(q)}

Ev(kind, a, b) == <<kind, a, b>>
Logged(st, kind, a, b) == [st EXCEPT !.log = Append(@, Ev(kind, a, b))]

----------------------------------------------------------------------------
(* Pointer use *)

\* Reading *p: a null p kills the process; a p whose record has been freed
\* reads indeterminate bytes, after which nothing is known of the process
\* ("uaf").
Touch(st, p) ==
    IF st.fault # "none" THEN st
    ELSE IF p = NULL THEN [st EXCEPT !.fault = "segv"]
    ELSE IF st.heap[p] # "live"
    THEN Logged([st EXCEPT !.fault = "uaf"], "read_freed", p, 0)
    ELSE st

\* zcalloc's choices: no memory (NULL), a freed address, or the lowest
\* address never used.
Unused(h) == {a \in Addr : h[a] = "unused"}
LowestUnused(h) == {a \in Unused(h) : \A b \in Unused(h) : a <= b}
ZcallocChoices(h, n) ==
    {NULL} \cup (IF n < MaxAllocs
                 THEN {a \in Addr : h[a] = "freed"} \cup LowestUnused(h)
                 ELSE {})

\* free(p)
Free(st, p) ==
    IF st.fault # "none" \/ p = NULL THEN st
    ELSE IF st.heap[p] = "live"
         THEN Logged([st EXCEPT !.heap[p] = "freed", !.mem[p] = ZeroRec],
                     "free", p, 0)
         ELSE Logged(st, "double_free", p, 0)

----------------------------------------------------------------------------
(* Session registry *)

zts_head(st) == st.head

zts_next(st, c) == IF c = NULL THEN NULL ELSE st.mem[c].next

\* The records Head/Next visits, in order.  A walk longer than NRec has
\* entered a cycle and is cut there.
RECURSIVE Walk(_, _, _)
Walk(m, a, seen) ==
    IF a = NULL \/ Len(seen) > NRec THEN seen
    ELSE Walk(m, m[a].next, Append(seen, a))

Traversal(st) == Walk(st.mem, st.head, <<>>)

\* zts_alloc(ztflags); a is what zcalloc returned.  The store
\* ztcp_tail->next = sess through a ztcp_tail that points to freed memory
\* either lands in bytes nothing reads again or (trap) kills the process.
zts_alloc(st, ztflags, a, trap) ==
    IF st.fault # "none" THEN [st |-> st, ret |-> NULL]
    ELSE IF a = NULL THEN [st |-> Logged(st, "zcalloc", NULL, 0), ret |-> NULL]
    ELSE LET s0 == Logged(st, "zcalloc", a, 0)
             s1 == [s0 EXCEPT !.heap[a] = "live", !.nalloc = @ + 1,
                              !.mem[a] = [ZeroRec EXCEPT !.fd = NOFD,
                                                         !.next = NULL,
                                                         !.flags = ztflags]]
         IN  IF zts_head(s1) = NULL
             THEN [st |-> [s1 EXCEPT !.head = a, !.tail = a], ret |-> a]
             ELSE IF s1.tail = NULL
             THEN [st |-> [s1 EXCEPT !.fault = "segv"], ret |-> NULL]
             ELSE IF s1.heap[s1.tail] # "live"
             THEN LET s2 == Logged(s1, "write_freed", s1.tail, 0) IN
                  IF trap
                  THEN [st |-> [s2 EXCEPT !.fault = "segv"], ret |-> NULL]
                  ELSE [st |-> s2, ret |-> a]
             ELSE [st |-> [s1 EXCEPT !.mem[s1.tail].next = a], ret |-> a]

\* The node the scan of zts_delete stops at: the first node from tsess whose
\* next is sess or NULL.  NULL stands for a scan that never stops.
RECURSIVE ScanStop(_, _, _, _)
ScanStop(m, tsess, sess, fuel) ==
    IF m[tsess].next = sess \/ m[tsess].next = NULL THEN tsess
    ELSE IF fuel = 0 THEN NULL
    ELSE ScanStop(m, m[tsess].next, sess, fuel - 1)

\* The nodes the scan dereferences before it stops.
RECURSIVE ScanPath(_, _, _, _)
ScanPath(m, tsess, sess, fuel) ==
    IF m[tsess].next = sess \/ m[tsess].next = NULL \/ fuel = 0 THEN {tsess}
    ELSE {tsess} \cup ScanPath(m, m[tsess].next, sess, fuel - 1)

zts_delete(st, sess) ==
    IF st.fault # "none" THEN [st |-> st, ret |-> 1]
    ELSE LET tsess == zts_head(st) IN
    IF tsess = sess
    THEN LET s1 == Touch(st, sess) IN
         IF s1.fault # "none" THEN [st |-> s1, ret |-> 1]
         ELSE [st |-> Free([s1 EXCEPT !.head = s1.mem[sess].next], sess),
               ret |-> 0]
    ELSE IF tsess = NULL
    THEN [st |-> [st EXCEPT !.fault = "segv"], ret |-> 1]
    ELSE LET stop == ScanStop(st.mem, tsess, sess, NRec)
             path == ScanPath(st.mem, tsess, sess, NRec)
             s1 == IF \E p \in path : st.heap[p] # "live"
                   THEN Logged([st EXCEPT !.fault = "uaf"], "read_freed", tsess, 0)
                   ELSE st
         IN  IF s1.fault # "none" THEN [st |-> s1, ret |-> 1]
             ELSE IF stop = NULL
             THEN [st |-> [s1 EXCEPT !.fault = "hang"], ret |-> 1]
             ELSE IF s1.mem[stop].next = NULL
             THEN [st |-> s1, ret |-> 1]
             ELSE LET s2 == Touch(s1, s1.mem[stop].next)
                      s3 == [s2 EXCEPT !.mem[stop].next =
                                           s2.mem[s2.mem[stop].next].next]
                  IN  IF s2.fault # "none" THEN [st |-> s2, ret |-> 1]
                      ELSE [st |-> Free(s3, s3.mem[stop].next), ret |-> 0]

\* zts_byfd(fd): the do-while dereferences tsess before it tests it.
RECURSIVE ByFdFrom(_, _, _, _)
ByFdFrom(st, tsess, fd, fuel) ==
    LET s1 == Touch(st, tsess) IN
    IF s1.fault # "none" THEN [st |-> s1, ret |-> NULL]
    ELSE IF s1.mem[tsess].fd = fd THEN [st |-> s1, ret |-> tsess]
    ELSE IF zts_next(s1, tsess) = NULL THEN [st |-> s1, ret |-> NULL]
    ELSE IF fuel = 0 THEN [st |-> [s1 EXCEPT !.fault = "hang"], ret |-> NULL]
    ELSE ByFdFrom(s1, zts_next(s1, tsess), fd, fuel - 1)

\* zts_byfd as it would be if the loop advanced before it compared
zts_byfd_advance(st, fd) ==
    IF st.fault # "none" THEN [st |-> st, ret |-> NULL]
    ELSE LET s1 == Touch(Logged(st, "byfd", zts_head(st), fd), zts_head(st)) IN
         IF s1.fault # "none" \/ zts_next(s1, zts_head(s1)) = NULL
         THEN [st |-> s1, ret |-> NULL]
         ELSE ByFdFrom(s1, zts_next(s1, zts_head(s1)), fd, NRec)

zts_byfd(st, fd) ==
    IF st.fault # "none" THEN [st |-> st, ret |-> NULL]
    ELSE ByFdFrom(Logged(st, "byfd", zts_head(st), fd), zts_head(st), fd, NRec)

----------------------------------------------------------------------------
(* Connection operations *)

\* socket(): the lowest descriptor not open, or -1 (failure, or none left)
LowestFree(open) ==
    IF FD \ open = {} THEN NOFD
    ELSE CHOOSE f \in FD \ open : \A g \in FD \ open : f <= g

\* tcp_socket(domain, type, protocol, ztflags); sockok: socket() succeeds
tcp_socket(st, ztflags, a, trap, sockok) ==
    LET r == zts_alloc(st, ztflags, a, trap) IN
    IF r.st.fault # "none" \/ r.ret = NULL THEN r
    ELSE LET f == IF sockok THEN LowestFree(r.st.osfd) ELSE NOFD
             s1 == [r.st EXCEPT !.mem[r.ret].fd = f,
                                !.osfd = IF f = NOFD THEN @ ELSE @ \cup {f}]
         IN  [st |-> Logged(s1, "socket", r.ret, f), ret |-> r.ret]

\* tcp_close as it would be if it set sess->fd to -1 after close()
tcp_close_reset(st, sess, oserr) ==
    LET s1 == Touch(Logged(st, "tcp_close", sess, 0), sess) IN
    IF s1.fault # "none" THEN [st |-> s1, ret |-> -1]
    ELSE IF s1.mem[sess].fd # NOFD
    THEN LET f == s1.mem[sess].fd
             err == (f \notin s1.osfd) \/ oserr
             s2 == Logged([s1 EXCEPT !.osfd = @ \ {f}, !.mem[sess].fd = NOFD],
                          "close", sess, f)
         IN  IF err THEN [st |-> s2, ret |-> -1]
             ELSE [st |-> s2, ret |-> 0]
    ELSE [st |-> s1, ret |-> -1]

\* tcp_close(sess); oserr: close() reports an error on an open descriptor.
\* close() releases an open descriptor whether or not it reports an error,
\* and fails (EBADF) on a descriptor that is not open.
tcp_close(st, sess, oserr) ==
    LET s1 == Touch(Logged(st, "tcp_close", sess, 0), sess) IN
    IF s1.fault # "none" THEN [st |-> s1, ret |-> -1]
    ELSE IF s1.mem[sess].fd # NOFD
    THEN LET f == s1.mem[sess].fd
             err == (f \notin s1.osfd) \/ oserr
             s2 == Logged([s1 EXCEPT !.osfd = @ \ {f}], "close", sess, f)
         IN  IF err THEN [st |-> s2, ret |-> -1]
             ELSE [st |-> s2, ret |-> 0]
    ELSE [st |-> s1, ret |-> -1]

\* tcp_connect(sess, addrp, zhost, d_port) on candidate i; ok: connect()
\* returns 0
tcp_connect(st, sess, i, ok) ==
    LET s1 == Touch(st, sess) IN
    IF s1.fault # "none" THEN [st |-> s1, ret |-> -1]
    ELSE [st |-> Logged([s1 EXCEPT !.mem[sess].peer = i], "connect", sess, i),
          ret |-> IF ok THEN 0 ELSE -1]

----------------------------------------------------------------------------
(* The builtin *)

\* The connect loop of bin_ztcp over candidates i..n; ef is errflag.  While
\* errflag is clear, connect() on candidate k is interrupted outs[k].intr
\* times by a signal whose handler leaves errflag clear (errno == EINTR: the
\* do-while calls again) and then ends as outs[k].res says: "ok" (0), "fail"
\* (-1, errno not EINTR) or "sig" (-1, errno == EINTR, and errflag is set
\* when the call returns, as after the user's interrupt).  Once errflag is
\* set each candidate gets the one call outs[k].res describes.  err is the
\* loop's err when it exits.
RECURSIVE Interrupted(_, _, _, _)
Interrupted(st, sess, i, k) ==
    IF k = 0 \/ st.fault # "none" THEN st
    ELSE Interrupted(Logged(tcp_connect(st, sess, i, FALSE).st, "eintr", sess, i),
                     sess, i, k - 1)

\* the loop as it would be if the for statement did not test err
RECURSIVE ConnectLoop_nostop(_, _, _, _, _, _)
ConnectLoop_nostop(st, sess, i, n, outs, ef) ==
    IF i > n \/ st.fault # "none" THEN [st |-> st, err |-> 1]
    ELSE LET s1 == IF ef THEN st ELSE Interrupted(st, sess, i, outs[i].intr)
             r == tcp_connect(s1, sess, i, outs[i].res = "ok")
             s2 == Logged(r.st, outs[i].res, sess, i)
         IN  ConnectLoop_nostop(s2, sess, i + 1, n, outs,
                                ef \/ outs[i].res = "sig")

RECURSIVE ConnectLoop(_, _, _, _, _, _)
ConnectLoop(st, sess, i, n, outs, ef) ==
    IF i > n \/ st.fault # "none" THEN [st |-> st, err |-> 1]
    ELSE LET s1 == IF ef THEN st ELSE Interrupted(st, sess, i, outs[i].intr)
             r == tcp_connect(s1, sess, i, outs[i].res = "ok")
             s2 == Logged(r.st, outs[i].res, sess, i)
         IN  IF r.ret = 0 THEN [st |-> s2, err |-> 0]
             ELSE ConnectLoop(s2, sess, i + 1, n, outs,
                              ef \/ outs[i].res = "sig")

\* bin_ztcp -c <fd> as it would be without the test of ZTCP_ZFTP
bin_ztcp_close_unguarded(st, targetfd, force, oserr) ==
    LET r == zts_byfd(st, targetfd) IN
    IF r.st.fault # "none" THEN [st |-> r.st, ret |-> 1, sess |-> NULL]
    ELSE IF r.ret # NULL
    THEN LET c == tcp_close(r.st, r.ret, oserr)
             d == zts_delete(c.st, r.ret)
         IN  [st |-> d.st, ret |-> 0, sess |-> r.ret]
    ELSE [st |-> r.st, ret |-> 1, sess |-> NULL]

\* bin_ztcp with -c and a descriptor argument
bin_ztcp_close(st, targetfd, force, oserr) ==
    LET r == zts_byfd(st, targetfd) IN
    IF r.st.fault # "none" THEN [st |-> r.st, ret |-> 1, sess |-> NULL]
    ELSE IF r.ret # NULL
    THEN IF r.st.mem[r.ret].flags = ZTCP_ZFTP /\ ~force
         THEN [st |-> r.st, ret |-> 1, sess |-> r.ret]
         ELSE LET c == tcp_close(r.st, r.ret, oserr)
                  d == zts_delete(c.st, r.ret)
              IN  [st |-> d.st, ret |-> 0, sess |-> r.ret]
    ELSE [st |-> r.st, ret |-> 1, sess |-> NULL]

\* bin_ztcp with a host argument as it would be if the result of
\* zsh_getipnodebyname were not tested
bin_ztcp_open_untested(st, resolved, n, outs, a, trap, sockok) ==
    LET s0 == Logged(st, "resolve", NULL, IF resolved THEN n ELSE 0)
        r == tcp_socket(s0, 0, a, trap, sockok)
        s1 == IF HAVE_SO_OOBINLINE
              THEN Touch(Logged(r.st, "setsockopt", r.ret, 0), r.ret)
              ELSE r.st
    IN  IF s1.fault # "none" THEN [st |-> s1, ret |-> 1, sess |-> r.ret]
        ELSE IF r.ret = NULL THEN [st |-> s1, ret |-> 1, sess |-> NULL]
        ELSE IF s1.mem[r.ret].fd < 0
        THEN [st |-> zts_delete(s1, r.ret).st, ret |-> 1, sess |-> r.ret]
        ELSE [st |-> ConnectLoop(s1, r.ret, 1, n, outs, FALSE).st, ret |-> 0,
              sess |-> r.ret]

\* bin_ztcp with a host argument; resolved: zsh_getipnodebyname found the
\* host, with n candidate addresses, and errflag is clear.  A connect loop
\* that ends with err set warns "connection failed" and the command still
\* returns 0.
bin_ztcp_open(st, resolved, n, outs, a, trap, sockok) ==
    IF ~resolved
    THEN [st |-> Logged(st, "resolve", NULL, 0), ret |-> 1, sess |-> NULL]
    ELSE LET r == tcp_socket(Logged(st, "resolve", NULL, n), 0, a, trap, sockok)
             s1 == IF HAVE_SO_OOBINLINE
                   THEN Touch(Logged(r.st, "setsockopt", r.ret, 0), r.ret)
                   ELSE r.st
         IN  IF s1.fault # "none" THEN [st |-> s1, ret |-> 1, sess |-> r.ret]
             ELSE IF r.ret = NULL THEN [st |-> s1, ret |-> 1, sess |-> NULL]
             ELSE IF s1.mem[r.ret].fd < 0
             THEN [st |-> zts_delete(s1, r.ret).st, ret |-> 1, sess |-> r.ret]
             ELSE LET c == ConnectLoop(s1, r.ret, 1, n, outs, FALSE) IN
                  [st |-> IF c.err # 0 /\ c.st.fault = "none"
                          THEN Logged(c.st, "connfail", r.ret, 0)
                          ELSE c.st,
                   ret |-> 0, sess |-> r.ret]

----------------------------------------------------------------------------
(* The state machine *)

Init ==
    /\ mem = [a \in Addr |-> ZeroRec]
    /\ heap = [a \in Addr |-> "unused"]
    /\ ztcp_head = NULL
    /\ ztcp_tail = NULL
    /\ osfd = {}
    /\ nalloc = 0
    /\ fault = "none"
    /\ log = <<>>
    /\ held = {}
    /\ born = [a \in Addr |-> 0]
    /\ closed = {}
    /\ pc = "idle"
    /\ c_sess = NULL
    /\ c_prev = NULL
    /\ c_link = NULL
    /\ last = [op |-> "init", sess |-> NULL, fd |-> 0, flags |-> 0,
               force |-> FALSE, ret |-> 0, pre |-> <<>>, again |-> FALSE,
               prevret |-> 0]

Idle == pc = "idle" /\ fault = "none"

\* The outcomes of the store ztcp_tail->next = sess of zts_alloc(a): it can
\* kill the process only when ztcp_tail points to freed memory.
TrapChoices(a) ==
    IF a # NULL /\ ztcp_head # NULL /\ ztcp_tail # NULL /\ ztcp_tail # a
       /\ heap[ztcp_tail] # "live"
    THEN BOOLEAN ELSE {FALSE}

\* socket() can succeed only while a descriptor is left
SocketChoices == IF LowestFree(osfd) = NOFD THEN {FALSE} ELSE BOOLEAN

\* close() can report an error of its own only on an open descriptor
CloseChoices(sess) ==
    IF sess # NULL /\ mem[sess].fd \in osfd THEN BOOLEAN ELSE {FALSE}

\* What the connect() calls on candidates k..n can do.  The loop makes no
\* call after a success ("done") and repeats none once errflag is set
\* ("set"): the entries it never looks at are held fixed.
RECURSIVE ConnectOutcomes(_, _, _)
ConnectOutcomes(k, n, mode) ==
    IF k > n THEN {<<>>}
    ELSE LET heads == IF mode = "done" THEN {[intr |-> 0, res |-> "ok"]}
                      ELSE IF mode = "set" THEN [intr : {0}, res : ConnectResults]
                      ELSE [intr : 0..MaxIntr, res : ConnectResults]
             after(h) == IF mode = "done" \/ h.res = "ok" THEN "done"
                         ELSE IF mode = "set" \/ h.res = "sig" THEN "set"
                         ELSE "clear"
         IN  UNION {{<<h>> \o t : t \in ConnectOutcomes(k + 1, n, after(h))} :
                    h \in heads}

ConnectChoices == [n \in 1..MaxAddrs |-> ConnectOutcomes(1, n, "clear")]

\* the sessions an operation called close() for
ClosedBy(l) == {l[i][2] : i \in {j \in 1..Len(l) : l[j][1] = "close"}}

Commit(st) ==
    /\ mem' = st.mem
    /\ heap' = st.heap
    /\ ztcp_head' = st.head
    /\ ztcp_tail' = st.tail
    /\ osfd' = st.osfd
    /\ nalloc' = st.nalloc
    /\ fault' = st.fault
    /\ log' = st.log
    /\ born' = [a \in Addr |-> IF st.heap[a] # "live" THEN 0
                               ELSE IF heap[a] # "live" THEN st.nalloc
                               ELSE born[a]]
    /\ closed' = {a \in closed \cup ClosedBy(st.log) : st.heap[a] = "live"}

\* The record of an operation: its name, the session it was given or
\* returned, the descriptor and flags involved, the force flag, its result,
\* the traversal before it and, for tcp_close, whether the operation before
\* it was tcp_close on the same session (and then that call's result).
Op(name, s, f, fl, fo, r) ==
    [op |-> name, sess |-> s, fd |-> f, flags |-> fl, force |-> fo, ret |-> r,
     pre |-> Traversal(World),
     again |-> (name = "tcp_close" /\ last.op = name /\ last.sess = s),
     prevret |-> IF name = "tcp_close" /\ last.op = name /\ last.sess = s
                 THEN last.ret ELSE 0]

\* Allocate
ZtsAlloc ==
    /\ Idle
    /\ \E ztflags \in Flags, a \in ZcallocChoices(heap, nalloc) :
       \E trap \in TrapChoices(a) :
       \E r \in {zts_alloc(World, ztflags, a, trap)} :
         /\ Commit(r.st)
         /\ held' = IF r.ret = NULL THEN held ELSE held \cup {r.ret}
         /\ last' = Op("zts_alloc", r.ret, 0, ztflags, FALSE, 0)
    /\ UNCHANGED <<pc, c_sess, c_prev, c_link>>

\* Delete of a session the caller holds
ZtsDelete ==
    /\ Idle
    /\ \E sess \in held :
       \E r \in {zts_delete(World, sess)} :
         /\ Commit(r.st)
         /\ held' = IF r.ret = 0 THEN held \ {sess} ELSE held
         /\ last' = Op("zts_delete", sess, 0, 0, FALSE, r.ret)
    /\ UNCHANGED <<pc, c_sess, c_prev, c_link>>

\* Delete of a record that is not in the list: a pointer to a record that
\* was deleted before, was dropped from the list, or never was a session.
\* zts_delete compares the pointer and never reads through it.
ZtsDeleteStale ==
    /\ Idle
    /\ \E sess \in Addr \ Range(Traversal(World)) :
       \E r \in {zts_delete(World, sess)} :
         /\ Commit(r.st)
         /\ held' = IF r.ret = 0 THEN held \ {sess} ELSE held
         /\ last' = Op("zts_delete", sess, 0, 0, FALSE, r.ret)
    /\ UNCHANGED <<pc, c_sess, c_prev, c_link>>

\* FindByDescriptor
ZtsByFd ==
    /\ Idle
    /\ \E fd \in TargetFds :
       \E r \in {zts_byfd(World, fd)} :
         /\ Commit(r.st)
         /\ last' = Op("zts_byfd", r.ret, fd, 0, FALSE, 0)
    /\ UNCHANGED <<held, pc, c_sess, c_prev, c_link>>

\* OpenSocket
TcpSocket ==
    /\ Idle
    /\ \E ztflags \in Flags, a \in ZcallocChoices(heap, nalloc), sockok \in SocketChoices :
       \E trap \in TrapChoices(a) :
       \E r \in {tcp_socket(World, ztflags, a, trap, sockok)} :
         /\ Commit(r.st)
         /\ held' = IF r.ret = NULL THEN held ELSE held \cup {r.ret}
         /\ last' = Op("tcp_socket", r.ret, 0, ztflags, FALSE, 0)
    /\ UNCHANGED <<pc, c_sess, c_prev, c_link>>

\* Close of a session the caller holds
TcpClose ==
    /\ Idle
    /\ \E sess \in held :
       \E oserr \in CloseChoices(sess) :
       \E r \in {tcp_close(World, sess, oserr)} :
         /\ Commit(r.st)
         /\ last' = Op("tcp_close", sess, mem[sess].fd, 0, FALSE, r.ret)
    /\ UNCHANGED <<held, pc, c_sess, c_prev, c_link>>

\* tcp_cleanup, entered from cleanup_ or from `ztcp -c`: sess = zts_head()
\* and the first test of the loop
CleanupStart ==
    /\ Idle
    /\ c_sess' = zts_head(World)
    /\ c_prev' = NULL
    /\ c_link' = NULL
    /\ pc' = IF zts_head(World) = NULL THEN "idle" ELSE "cleanup_body"
    /\ log' = <<>>
    /\ last' = Op("tcp_cleanup", NULL, 0, 0, FALSE, 0)
    /\ UNCHANGED <<mem, heap, ztcp_head, ztcp_tail, osfd, nalloc, fault, held,
                   born, closed>>

\* the loop body: prev = sess; tcp_close(sess); zts_delete(sess);
CleanupBody ==
    /\ pc = "cleanup_body" /\ fault = "none"
    /\ \E oserr \in CloseChoices(c_sess) :
       \E d \in {zts_delete(tcp_close([World EXCEPT !.log = log], c_sess,
                                       oserr).st, c_sess)} :
         /\ Commit(d.st)
         /\ held' = IF d.ret = 0 THEN held \ {c_sess} ELSE held
    /\ c_prev' = c_sess
    /\ c_link' = zts_next(World, c_sess)
    /\ pc' = "cleanup_next"
    /\ UNCHANGED <<c_sess, last>>

\* the loop step: sess = zts_next(prev), and the test.  When the body has
\* freed *prev the read of prev->next yields the value the field had
\* ("stale"), NULL, or kills the process ("trap").
CleanupNext ==
    /\ pc = "cleanup_next" /\ fault = "none"
    /\ \E outcome \in {"stale", "null", "trap"} :
         /\ heap[c_prev] = "live" => outcome = "stale"
         /\ LET nxt == IF outcome # "stale" THEN NULL
                       ELSE IF heap[c_prev] = "live" THEN zts_next(World, c_prev)
                       ELSE c_link
            IN  /\ c_sess' = nxt
                /\ fault' = IF outcome = "trap" THEN "segv" ELSE fault
                /\ pc' = IF nxt = NULL \/ outcome = "trap" THEN "idle"
                         ELSE "cleanup_body"
    /\ log' = IF heap[c_prev] = "live" THEN log
              ELSE Append(log, Ev("read_freed", c_prev, 0))
    /\ UNCHANGED <<mem, heap, ztcp_head, ztcp_tail, osfd, nalloc, held, born,
                   closed, c_prev, c_link, last>>

\* `ztcp -c <fd>` and `ztcp -cf <fd>`
ZtcpClose ==
    /\ Idle
    /\ \E targetfd \in TargetFds, force \in BOOLEAN :
       \E oserr \in IF targetfd \in osfd THEN BOOLEAN ELSE {FALSE} :
       \E r \in {bin_ztcp_close(World, targetfd, force, oserr)} :
         /\ Commit(r.st)
         /\ held' = IF r.ret = 0 THEN held \ {r.sess} ELSE held
         /\ last' = Op("ztcp_close", r.sess, targetfd,
                       IF r.sess = NULL THEN 0 ELSE mem[r.sess].flags,
                       force, r.ret)
    /\ UNCHANGED <<pc, c_sess, c_prev, c_link>>

\* `ztcp <host> [<port>]`
ZtcpOpen ==
    /\ Idle
    /\ \E resolved \in BOOLEAN :
       \E a \in IF resolved THEN ZcallocChoices(heap, nalloc) ELSE {NULL},
          sockok \in IF resolved THEN SocketChoices ELSE {FALSE} :
       \E trap \in TrapChoices(a),
          n \in IF resolved /\ a # NULL /\ sockok THEN 1..MaxAddrs ELSE {1} :
       \E outs \in IF resolved /\ a # NULL /\ sockok
                   THEN ConnectChoices[n]
                   ELSE {[k \in 1..n |-> [intr |-> 0, res |-> "ok"]]} :
       \E r \in {bin_ztcp_open(World, resolved, n, outs, a, trap, sockok)} :
         /\ Commit(r.st)
         /\ held' = IF r.sess # NULL /\ r.ret = 0 THEN held \cup {r.sess}
                    ELSE held
         /\ last' = Op("ztcp_open", r.sess, 0, 0, FALSE, r.ret)
    /\ UNCHANGED <<pc, c_sess, c_prev, c_link>>

\* `ztcp` with no argument: lists the sessions and changes nothing
ZtcpList ==
    /\ Idle
    /\ log' = <<>>
    /\ last' = Op("ztcp_list", NULL, 0, 0, FALSE, 0)
    /\ UNCHANGED <<mem, heap, ztcp_head, ztcp_tail, osfd, nalloc, fault, held,
                   born, closed, pc, c_sess, c_prev, c_link>>

Next ==
    \/ ZtsAlloc
    \/ ZtsDelete
    \/ TcpSocket
    \/ TcpClose
    \/ CleanupStart
    \/ CleanupBody
    \/ CleanupNext
    \/ ZtcpClose
    \/ ZtcpOpen
    \/ ZtcpList
    \/ ZtsDeleteStale
    \/ ZtsByFd

\* every operation together
Spec == Init /\ [][Next]_vars

\* The registry alone: Allocate and Delete
NextRegistry ==
    \/ ZtsAlloc
    \/ ZtsDelete

SpecRegistry == Init /\ [][NextRegistry]_vars

\* The registry with DrainAll
NextDrain ==
    \/ ZtsAlloc
    \/ ZtsDelete
    \/ CleanupStart
    \/ CleanupBody
    \/ CleanupNext

SpecDrain == Init /\ [][NextDrain]_vars

\* The connection operations over the registry
NextConn ==
    \/ TcpSocket
    \/ TcpClose
    \/ ZtsDelete
    \/ CleanupStart
    \/ CleanupBody
    \/ CleanupNext

SpecConn == Init /\ [][NextConn]_vars

\* Sockets opened and closed, never deleted
NextClose ==
    \/ TcpSocket
    \/ TcpClose

SpecClose == Init /\ [][NextClose]_vars

\* Close by descriptor
NextCloseFd ==
    \/ TcpSocket
    \/ TcpClose
    \/ ZtcpClose

SpecCloseFd == Init /\ [][NextCloseFd]_vars

\* Sockets opened and closed, and sessions looked up by descriptor
NextFind ==
    \/ TcpSocket
    \/ TcpClose
    \/ ZtsByFd

SpecFind == Init /\ [][NextFind]_vars

\* Sockets opened by tcp_socket and closed only by descriptor
NextCloseCmd ==
    \/ TcpSocket
    \/ ZtcpClose

SpecCloseCmd == Init /\ [][NextCloseCmd]_vars

\* The builtin and the exported connection operations
NextZtcp ==
    \/ TcpSocket
    \/ TcpClose
    \/ ZtcpClose
    \/ ZtcpOpen
    \/ ZtcpList

SpecZtcp == Init /\ [][NextZtcp]_vars

\* The registry with Delete of records that are not in it
NextStale ==
    \/ ZtsAlloc
    \/ ZtsDelete
    \/ ZtsDeleteStale

SpecStale == Init /\ [][NextStale]_vars

\* `ztcp <host>` alone
NextOpen ==
    \/ ZtcpOpen
    \/ ZtcpList

SpecOpen == Init /\ [][NextOpen]_vars

----------------------------------------------------------------------------
(* Properties *)

Trav == Traversal(World)
NoDup(q) == \A i, j \in 1..Len(q) : i # j => q[i] # q[j]
Without(q, x) == SelectSeq(q, LAMBDA y : y # x)
\* how often the current operation did `kind` to p
CountIn(l, kind, p) ==
    Cardinality({i \in 1..Len(l) : l[i][1] = kind /\ l[i][2] = p})
Count(kind, p) == CountIn(log, kind, p)
DidIn(l, kind) == \E i \in 1..Len(l) : l[i][1] = kind
Did(kind) == DidIn(log, kind)
AtRest == fault = "none" /\ pc = "idle"

\* No read of a freed record outside tcp_cleanup's loop step, no scan that
\* never ends and no double free: the outcomes the model gives them are
\* never used.
ModelSane ==
    /\ fault \in {"none", "segv"}
    /\ ~Did("double_free")
    /\ (fault = "none" /\ ztcp_head # NULL) => heap[ztcp_head] = "live"

\* C1: after any sequence of zts_alloc and zts_delete the traversal from
\* ztcp_head ends, visits no session twice and visits exactly the sessions
\* allocated and not yet deleted.
C1_TraversalVisitsLive ==
    AtRest => /\ Len(Trav) <= NRec
              /\ NoDup(Trav)
              /\ Range(Trav) = held

\* C2: once tcp_cleanup has returned, ztcp_head is NULL, no session is left
\* held, and every session the registry held when it started was passed to
\* tcp_close exactly once and freed.
C2_DrainClosesAndFreesAll ==
    (last.op = "tcp_cleanup" /\ pc = "idle") =>
        /\ fault = "none"
        /\ ztcp_head = NULL
        /\ held = {}
        /\ \A s \in Range(last.pre) :
             Count("tcp_close", s) = 1 /\ Count("free", s) = 1

\* C3: between operations ztcp_head is NULL exactly when no session is held,
\* and when it is not NULL the record ztcp_tail points to has a NULL next.
C3_HeadTailConsistent ==
    AtRest => /\ (ztcp_head = NULL) <=> (held = {})
              /\ ztcp_head # NULL =>
                   /\ ztcp_tail # NULL
                   /\ heap[ztcp_tail] = "live"
                   /\ mem[ztcp_tail].next = NULL

\* C4: zts_delete of a session that is in the list returns 0, removes that
\* session alone from the traversal, keeps the order of the others, and
\* frees the session's record and no other.
C4_DeleteRemovesAndFrees ==
    (last.op = "zts_delete" /\ last.sess \in Range(last.pre)) =>
        /\ fault = "none"
        /\ last.ret = 0
        /\ Trav = Without(last.pre, last.sess)
        /\ \A a \in Addr : Count("free", a) = IF a = last.sess THEN 1 ELSE 0

\* C5: a zts_alloc that gets memory returns a record with fd -1, the given
\* flags and a NULL next, and the traversal after it is the traversal before
\* it followed by the new record.
C5_AllocAppends ==
    (last.op = "zts_alloc" /\ last.sess # NULL) =>
        /\ fault = "none"
        /\ mem[last.sess].fd = NOFD
        /\ mem[last.sess].flags = last.flags
        /\ mem[last.sess].next = NULL
        /\ Trav = Append(last.pre, last.sess)

\* C6: a tcp_close on a session with an open descriptor releases the
\* descriptor and returns 0 or -1; it leaves the session's fd field as it
\* was, and a tcp_close that directly follows a tcp_close of the same
\* session returns -1.
C6_SecondCloseFails ==
    (last.op = "tcp_close" /\ last.fd # NOFD) =>
        /\ fault = "none"
        /\ last.ret \in {0, -1}
        /\ last.fd \notin osfd
        /\ mem[last.sess].fd = last.fd
        /\ last.again => last.ret = -1

\* a session was closed with success and then closed again
C6_Witness ==
    /\ last.op = "tcp_close"
    /\ last.fd \in FD
    /\ last.again
    /\ last.prevret = 0
    /\ last.ret = -1

\* C7: `ztcp -c <fd>` that finds a session flagged ZTCP_ZFTP returns 1 and
\* changes nothing when -f is not given; with -f it returns 0, the
\* descriptor is no longer open and the session is no longer in the list.
C7_PrivilegedClose ==
    [][(last'.op = "ztcp_close" /\ last'.sess # NULL
        /\ last'.flags = ZTCP_ZFTP) =>
         /\ fault' = "none"
         /\ last'.sess \in Range(Trav)
         /\ mem[last'.sess].fd = last'.fd
         /\ IF last'.force
            THEN /\ last'.ret = 0
                 /\ last'.fd \notin osfd'
                 /\ last'.sess \notin Range(Trav')
                 /\ Trav' = Without(Trav, last'.sess)
                 /\ CountIn(log', "tcp_close", last'.sess) = 1
            ELSE /\ last'.ret = 1
                 /\ UNCHANGED <<mem, heap, ztcp_head, ztcp_tail, osfd, nalloc,
                                held>>
                 /\ ~DidIn(log', "tcp_close") /\ ~DidIn(log', "free")
      ]_vars

\* a flagged session with an open descriptor was refused
C7_Witness ==
    /\ last.op = "ztcp_close"
    /\ last.sess # NULL
    /\ last.flags = ZTCP_ZFTP
    /\ ~last.force
    /\ last.ret = 1
    /\ last.fd \in osfd
    /\ last.sess \in Range(Trav)

\* the same request with -f went through
C7_ForcedReached ==
    /\ last.op = "ztcp_close"
    /\ last.sess # NULL
    /\ last.flags = ZTCP_ZFTP
    /\ last.force
    /\ last.ret = 0

\* C8: `ztcp -c <fd>` for a descriptor no session in the list has returns 1
\* and leaves the list as it was, the empty list included, and zts_byfd is
\* not called on an empty list.
C8_MissingDescriptor ==
    (last.op = "ztcp_close" /\ last.sess = NULL
     /\ \A s \in Range(last.pre) : mem[s].fd # last.fd) =>
        /\ fault = "none"
        /\ last.ret = 1
        /\ Trav = last.pre
        /\ Count("byfd", NULL) = 0

\* C9: when socket() fails in `ztcp <host>`, the command returns 1, the
\* traversal is what it was before the command and the record tcp_socket
\* appended has been freed.
C9_SocketFailureUndone ==
    (last.op = "ztcp_open" /\ last.sess # NULL
     /\ Count("socket", last.sess) = 1 /\ ~Did("connect")
     /\ \E i \in 1..Len(log) : log[i] = Ev("socket", last.sess, NOFD)) =>
        /\ fault = "none"
        /\ last.ret = 1
        /\ Trav = last.pre
        /\ Count("free", last.sess) = 1
        /\ heap[last.sess] = "freed"

\* C10: when zcalloc fails in `ztcp <host>`, the command returns 1, nothing
\* is done with the null session and the list is as it was.
C10_AllocFailureAborts ==
    (last.op = "ztcp_open" /\ Count("zcalloc", NULL) = 1) =>
        /\ fault = "none"
        /\ last.ret = 1
        /\ Count("setsockopt", NULL) = 0
        /\ Trav = last.pre

\* The connect() calls of the current `ztcp <host>`, each as the event that
\* tells how it ended, and the number of candidates the host resolved to.
Calls == SelectSeq(log, LAMBDA e : e[1] \in {"eintr", "sig", "fail", "ok"})
Candidates == log[1][3]
ConnectLoopRan == last.op = "ztcp_open" /\ fault = "none" /\ Did("connect")

\* What holds of the calls whether or not errflag is looked at: one connect
\* per call, the first call on the first candidate, nothing after a success,
\* the next candidate after a failure that was no interrupt, and no
\* candidate with more than one call that was not interrupted.
CallsInOrder(c) ==
    /\ Len(c) = Cardinality({i \in 1..Len(log) : log[i][1] = "connect"})
    /\ c[1][3] = 1
    /\ \A j \in 1..(Len(c) - 1) :
         /\ c[j][1] # "ok"
         /\ c[j][1] = "fail" => c[j + 1][3] = c[j][3] + 1
    /\ \A k \in 1..Candidates :
         Cardinality({j \in 1..Len(c) : c[j][3] = k
                                         /\ c[j][1] \in {"ok", "fail"}}) <= 1

\* C11 as stated: the candidates are tried in list order, every interrupted
\* connect is called again on the same candidate, any other failure moves to
\* the next candidate, and the loop ends at the first success or when the
\* last candidate has failed.
C11_InterruptAlwaysRetried ==
    ConnectLoopRan =>
        /\ CallsInOrder(Calls)
        /\ \A j \in 1..(Len(Calls) - 1) :
             Calls[j][1] \in {"eintr", "sig"} => Calls[j + 1][3] = Calls[j][3]
        /\ \/ Calls[Len(Calls)][1] = "ok"
           \/ Calls[Len(Calls)] = Ev("fail", last.sess, Candidates)

\* C11 amended: an interrupted connect is called again on the same candidate
\* while errflag is clear; an interrupted connect that leaves errflag set
\* moves to the next candidate as any other failure does, and no call is
\* repeated after it.
C11_InterruptRetriedUnlessErrflag ==
    ConnectLoopRan =>
        /\ CallsInOrder(Calls)
        /\ \A j \in 1..(Len(Calls) - 1) :
             /\ Calls[j][1] = "eintr" => Calls[j + 1][3] = Calls[j][3]
             /\ Calls[j][1] = "sig" =>
                  /\ Calls[j + 1][3] = Calls[j][3] + 1
                  /\ \A m \in (j + 1)..Len(Calls) : Calls[m][1] # "eintr"
        /\ \/ Calls[Len(Calls)][1] = "ok"
           \/ Calls[Len(Calls)] = Ev("fail", last.sess, Candidates)
           \/ Calls[Len(Calls)] = Ev("sig", last.sess, Candidates)

\* a connect was interrupted and repeated, the candidate then failed and the
\* next candidate succeeded
C11_Witness ==
    /\ ConnectLoopRan
    /\ Candidates >= 2
    /\ Calls = <<Ev("eintr", last.sess, 1), Ev("fail", last.sess, 1),
                 Ev("ok", last.sess, 2)>>

\* C12: when every candidate of `ztcp <host>` has failed, the command warns
\* that the connection failed and returns with the session still in the
\* list and its descriptor still open: nothing was closed, nothing freed.
C12_ConnectFailureKeepsSession ==
    (last.op = "ztcp_open" /\ Did("connect") /\ ~Did("ok")) =>
        /\ fault = "none"
        /\ Did("connfail")
        /\ last.sess \in Range(Trav)
        /\ heap[last.sess] = "live"
        /\ mem[last.sess].fd \in osfd
        /\ ~Did("close")
        /\ ~Did("free")

\* C13: a `ztcp <host>` whose host does not resolve returns 1 and does
\* nothing else: no record is allocated, no socket is created, and memory,
\* the list and the open descriptors are what they were.
C13_ResolutionFailureAborts ==
    [][(last'.op = "ztcp_open" /\ log'[1] = Ev("resolve", NULL, 0)) =>
         /\ fault' = "none"
         /\ last'.ret = 1
         /\ log' = <<Ev("resolve", NULL, 0)>>
         /\ UNCHANGED <<mem, heap, ztcp_head, ztcp_tail, osfd, nalloc, held>>
      ]_vars

\* a host did not resolve while a session was open
C13_Witness ==
    /\ last.op = "ztcp_open"
    /\ log = <<Ev("resolve", NULL, 0)>>
    /\ last.ret = 1
    /\ ztcp_head # NULL
    /\ osfd # {}

\* C14: tcp_cleanup reads no field of a record that has been freed and
\* does not end the process; on an empty list it does nothing and ztcp_head
\* stays NULL.
C14_CleanupReadsNoFreedRecord ==
    last.op = "tcp_cleanup" =>
        /\ fault = "none"
        /\ ~Did("read_freed")
        /\ last.pre = <<>> => (pc = "idle" /\ ztcp_head = NULL /\ log = <<>>)

\* C15: zts_delete of a record that is not in the list returns 1 and
\* changes nothing, whatever the list holds, the empty list included: no
\* null pointer is read, nothing is freed and the traversal is as before.
C15_DeleteOfAbsentRecord ==
    (last.op = "zts_delete" /\ last.sess \notin Range(last.pre)) =>
        /\ fault = "none"
        /\ last.ret = 1
        /\ Trav = last.pre
        /\ ~Did("free")

\* The places in the traversal of the sessions whose fd is f
Hits(f) == {i \in 1..Len(Trav) : mem[Trav[i]].fd = f}

\* C16: on a list that is not empty zts_byfd(fd) changes nothing and returns
\* NULL when no session in the list has that fd; otherwise it returns the
\* session with that fd that comes first in the traversal, which of the
\* sessions in the list with that fd is the one allocated first.
C16_FirstMatchInOrder ==
    [][(last'.op = "zts_byfd" /\ Trav # <<>>) =>
         /\ fault' = "none"
         /\ UNCHANGED <<mem, heap, ztcp_head, ztcp_tail, osfd, nalloc, held>>
         /\ IF Hits(last'.fd) = {} THEN last'.sess = NULL
            ELSE \E i \in Hits(last'.fd) :
                   /\ last'.sess = Trav[i]
                   /\ \A j \in Hits(last'.fd) \ {i} :
                        i < j /\ born[Trav[i]] < born[Trav[j]]
      ]_vars

\* two sessions in the list carry the descriptor that was looked up, and the
\* first of them was returned
C16_Witness ==
    /\ last.op = "zts_byfd"
    /\ last.fd \in FD
    /\ Cardinality(Hits(last.fd)) = 2
    /\ last.sess = Trav[1]
    /\ fault = "none"

\* C17: tcp_close changes no record and neither ztcp_head nor ztcp_tail, so
\* the traversal and the session's fd, flags and peer are what they were;
\* it opens no descriptor and closes none but the one in the session's fd.
C17_CloseLeavesRegistry ==
    [][last'.op = "tcp_close" =>
         /\ fault' = "none"
         /\ UNCHANGED <<mem, heap, ztcp_head, ztcp_tail, nalloc, held>>
         /\ Traversal(World)' = Trav
         /\ mem'[last'.sess] = mem[last'.sess]
         /\ osfd' = osfd \ {mem[last'.sess].fd}
      ]_vars

\* a session in the list was closed with success and is still in the list,
\* its fd field still the descriptor that is no longer open
C17_Witness ==
    /\ last.op = "tcp_close"
    /\ last.ret = 0
    /\ last.sess \in Range(Trav)
    /\ mem[last.sess].fd = last.fd
    /\ last.fd \in FD
    /\ last.fd \notin osfd

\* C18: between operations no two sessions that are allocated, not deleted
\* and not yet closed carry the same descriptor (-1, no descriptor, aside).
\* socket() never returns a descriptor that is open.
C18_OpenDescriptorsUnique ==
    AtRest => \A s, t \in held \ closed :
                (s # t /\ mem[s].fd # NOFD) => mem[s].fd # mem[t].fd

\* C19: between operations every record reachable from ztcp_head is
\* allocated and, while ztcp_head is not NULL, so is the record ztcp_tail
\* points to; no operation frees a record twice or stores through a pointer
\* to a freed record.
C19_RegistryMemorySafe ==
    /\ ~Did("double_free")
    /\ ~Did("write_freed")
    /\ AtRest =>
         /\ \A a \in Range(Trav) : heap[a] = "live"
         /\ ztcp_head # NULL => (ztcp_tail # NULL /\ heap[ztcp_tail] = "live")

\* The events the step adds to the log: tcp_cleanup's loop body appends to
\* the log, every other operation starts it anew.
NewEvents == IF pc = "cleanup_body" THEN SubSeq(log', Len(log) + 1, Len(log'))
             ELSE log'

\* C20: no operation calls close() through a session that was closed before
\* on a descriptor that is open and is carried by another session, one that
\* is in the list, not deleted and not yet closed.
C20_CloseOnlyOwnDescriptor ==
    [][\A i \in 1..Len(NewEvents) :
         (NewEvents[i][1] = "close" /\ NewEvents[i][2] \in closed) =>
            ~\E s \in (held \cap Range(Trav)) \ closed :
                 /\ s # NewEvents[i][2]
                 /\ mem[s].fd = NewEvents[i][3]
                 /\ mem[s].fd \in osfd
      ]_vars

====
